---- MODULE Spec2Model ----
(***************************************************************************)
(* A model of screen_brightness_control/windows.py: the two brightness      *)
(* channels (WMI and VCP), the process-wide cache they share, the merge of  *)
(* their monitor lists, and the top-level get/set dispatch.                 *)
(***************************************************************************)
EXTENDS Integers, Sequences, FiniteSets, TLC

(***************************************************************************)
(* Bounds of the model.                                                     *)
(***************************************************************************)
\* monitors attached: per channel when enumerating, in total when dispatching
MaxMon == 2
\* HMONITORs, and physical monitors per HMONITOR, of one handle iteration
MaxHMon == 2
MaxPhys == 2
\* threads making their first call to _wmi_init
NumThreads == 3

(***************************************************************************)
(* Python values.                                                           *)
(***************************************************************************)
NoneStr == [some |-> FALSE, v |-> ""]
SomeStr(s) == [some |-> TRUE, v |-> s]
NoneInt == [some |-> FALSE, v |-> 0]
SomeInt(n) == [some |-> TRUE, v |-> n]

\* str(x) of an optional string, as an f-string renders it
Str(o) == IF o.some THEN o.v ELSE "None"

\* str.lower() on the strings of the model
Lower(s) ==
    CASE s = "WMI" -> "wmi"
      [] s = "VCP" -> "vcp"
      [] s = "BENQ" -> "benq"
      [] s = "BenQ" -> "benq"
      [] s = "Benq" -> "benq"
      [] s = "S1" -> "s1"
      [] s = "S2" -> "s2"
      [] s = "BNQ78A7" -> "bnq78a7"
      [] s = "GL2450H" -> "gl2450h"
      [] s = "BenQ BNQ78A7" -> "benq bnq78a7"
      [] s = "Benq GL2450H" -> "benq gl2450h"
      [] s = "NOPE" -> "nope"
      [] OTHER -> s

\* str.capitalize() on the lower-cased manufacturer words of the model
Capitalize(s) ==
    CASE s = "benq" -> "Benq"
      [] OTHER -> s

HexDigit(d) ==
    CASE d = 0 -> "0" [] d = 1 -> "1" [] d = 2 -> "2" [] d = 3 -> "3"
      [] d = 4 -> "4" [] d = 5 -> "5" [] d = 6 -> "6" [] d = 7 -> "7"
      [] d = 8 -> "8" [] d = 9 -> "9" [] d = 10 -> "a" [] d = 11 -> "b"
      [] d = 12 -> "c" [] d = 13 -> "d" [] d = 14 -> "e" [] OTHER -> "f"

\* str(hex(i)).replace('0x',''): no zero padding
HexByte(b) == IF b < 16 THEN HexDigit(b) ELSE HexDigit(b \div 16) \o HexDigit(b % 16)

RECURSIVE JoinHex(_)
JoinHex(bytes) ==
    IF bytes = <<>> THEN "" ELSE HexByte(Head(bytes)) \o JoinHex(Tail(bytes))

\* the 'edid' field: the hex digits of the raw block, None when the block
\* of this instance cannot be read (the lookup raises)
EdidOf(block) == IF block.some THEN SomeStr(JoinHex(block.v)) ELSE NoneStr

\* bytes(...).decode().replace('\x00', '')
RECURSIVE DecodeStrip(_)
DecodeStrip(chars) ==
    IF chars = <<>> THEN ""
    ELSE (IF Head(chars) = "NUL" THEN "" ELSE Head(chars)) \o DecodeStrip(Tail(chars))

\* _monitor_brand_lookup: a 3-letter code or a brand name to (code, name)
BrandLookup(s) ==
    IF s \in {"BNQ", "BenQ"}
    THEN [ok |-> TRUE, id |-> "BNQ", name |-> "BenQ"]
    ELSE [ok |-> FALSE, id |-> "", name |-> ""]

SeqsUpTo(S, n) == UNION {[1..k -> S] : k \in 0..n}

RECURSIVE SelectIdx(_, _, _)
\* the positions i (from k on) of s with Test(s[i]), in order
SelectIdx(s, k, keep) ==
    IF k > Len(s) THEN <<>>
    ELSE (IF k \in keep THEN <<s[k]>> ELSE <<>>) \o SelectIdx(s, k + 1, keep)

(***************************************************************************)
(* State.                                                                   *)
(***************************************************************************)
VARIABLES
    wmiMons,    \* the monitors the WMI brightness class reports, in its order
    vcpMons,    \* the physical monitors, in handle order
    hwWmi,      \* brightness each WMI monitor holds
    hwVcp,      \* brightness (VCP feature 0x10) each physical monitor holds
    cache,      \* __cache__: key -> [value, ttl]
    last,       \* the call made last and its outcome
    gen,        \* one iter_physical_monitors generator and its handles
    thr,        \* the threads inside _wmi_init
    made        \* wmi.WMI(...) instances constructed so far

vars == <<wmiMons, vcpMons, hwWmi, hwVcp, cache, last, gen, thr, made>>
world == <<wmiMons, vcpMons>>

(***************************************************************************)
(* __cache__                                                                *)
(***************************************************************************)
NoExpiry == NoneInt
EmptyCache == [k \in {} |-> [value |-> 0, ttl |-> NoExpiry]]

\* __cache__.get succeeds (otherwise it raises, and the caller computes)
CacheHit(c, key) == key \in DOMAIN c
CacheGet(c, key) == c[key].value
CacheStore(c, key, value, ttl) ==
    [k \in DOMAIN c \cup {key} |->
        IF k = key THEN [value |-> value, ttl |-> ttl] ELSE c[k]]

\* one expiry unit (half a second) passes: entries run down and expire
CacheAge(c) ==
    LET live == {k \in DOMAIN c : ~c[k].ttl.some \/ c[k].ttl.v > 1}
    IN  [k \in live |->
            IF c[k].ttl.some
            THEN [value |-> c[k].value, ttl |-> SomeInt(c[k].ttl.v - 1)]
            ELSE c[k]]

\* expires=0.5, in expiry units of half a second
BrightnessExpires == 1

MethodKey(method) == "windows_monitors_info/" \o Str(method)
BrightnessKey(edid) == "vcp_" \o edid \o "_brightness"

(***************************************************************************)
(* Results of calls: a value and the cache after it, or an exception.       *)
(***************************************************************************)
Ok(c, v) == [c |-> c, ok |-> TRUE, exc |-> "", val |-> v]
Raise(c, e) == [c |-> c, ok |-> FALSE, exc |-> e, val |-> <<>>]

\* what the operating system does during one call:
\*   wmiListRaises  the WmiMonitorBrightness query of WMI.get_display_info raises
\*   vcpListRaises  win32api.EnumDisplayMonitors of VCP.get_display_info raises
\*   wmiRaises      the WMI query of WMI.get_brightness / set_brightness raises
\*   enumRaises     EnumDisplayMonitors of iter_physical_monitors fails
\*   readFails      GetVCPFeatureAndVCPFeatureReply returns 0
NoEnv ==
    [wmiListRaises |-> FALSE, vcpListRaises |-> FALSE,
     wmiRaises |-> FALSE, enumRaises |-> FALSE, readFails |-> FALSE]

(***************************************************************************)
(* Display queries and filter_monitors.                                     *)
(***************************************************************************)
NoDisplay == [t |-> "none", i |-> 0, s |-> ""]
IntDisplay(i) == [t |-> "int", i |-> i, s |-> ""]
StrDisplay(s) == [t |-> "str", i |-> 0, s |-> s]
OtherDisplay == [t |-> "other", i |-> 0, s |-> ""]

MatchOn(field, s, monitors) ==
    LET key(m) ==
            CASE field = "serial" -> SomeStr(m.serial)
              [] field = "name" -> SomeStr(m.name)
              [] field = "model" -> SomeStr(m.model)
              [] OTHER -> m.edid
        hit(m) == key(m).some /\ Lower(key(m).v) = Lower(s)
    IN  SelectIdx(monitors, 1, {k \in 1..Len(monitors) : hit(monitors[k])})

\* the query applied to a list of records
FilterIn(c, display, monitors) ==
    LET FirstOf(found, otherwise) == IF found # <<>> THEN Ok(c, found) ELSE otherwise
    IN  CASE display.t = "none" -> Ok(c, monitors)
          [] display.t = "int" ->
                IF display.i >= 0 /\ display.i < Len(monitors)
                THEN Ok(c, <<monitors[display.i + 1]>>)
                ELSE Raise(c, "IndexError")
          [] display.t = "str" ->
                FirstOf(MatchOn("serial", display.s, monitors),
                    FirstOf(MatchOn("name", display.s, monitors),
                        FirstOf(MatchOn("model", display.s, monitors),
                            FirstOf(MatchOn("edid", display.s, monitors),
                                    Raise(c, "LookupError")))))
          [] OTHER -> Raise(c, "TypeError")

OfMethod(monitors, method) ==
    IF method.some
    THEN SelectIdx(monitors, 1,
            {k \in 1..Len(monitors) : Lower(monitors[k].method) = Lower(method.v)})
    ELSE monitors

\* filter_monitors(display, haystack=..., method=...)
FilterHaystack(c, display, haystack, method) ==
    FilterIn(c, display, OfMethod(haystack, method))

(***************************************************************************)
(* _wmi_init, as one thread runs it alone.                                  *)
(***************************************************************************)
WmiInit(c) ==
    IF CacheHit(c, "wmi_instance") THEN c
    ELSE CacheStore(c, "wmi_instance", 1, NoExpiry)

(***************************************************************************)
(* WMI.get_display_info and VCP.get_display_info                            *)
(***************************************************************************)
\* m.InstanceName, and its parts after split('\\')
InstanceName(m) == <<"DISPLAY", m.pnp \o m.product, m.uid>>

\* descriptors = {i.InstanceName: i.WmiGetMonitorRawEEdidV1Block(0) ...}: a dict,
\* so of the descriptors published under one InstanceName the last one stays;
\* a name without a descriptor is a KeyError and gives edid None
DescriptorOf(name) ==
    LET Published == {k \in 1..Len(wmiMons) :
                        InstanceName(wmiMons[k]) = name /\ wmiMons[k].block.some}
        Last(ks) == CHOOSE k \in ks : \A j \in ks : j <= k
    IN  IF Published = {} THEN NoneStr ELSE EdidOf(wmiMons[Last(Published)].block)

WmiRecord(m, a) ==
    LET Record(serial, model, brand) ==
            [name |-> (IF brand.ok THEN brand.name ELSE "None") \o " " \o model,
             model |-> model, model_name |-> NoneStr, serial |-> serial,
             manufacturer |-> IF brand.ok THEN SomeStr(brand.name) ELSE NoneStr,
             manufacturer_id |-> SomeStr(IF brand.ok THEN brand.id ELSE m.pnp),
             index |-> a, method |-> "WMI", edid |-> DescriptorOf(InstanceName(m))]
        Split(instance) == Record(instance[Len(instance)], instance[2], BrandLookup(m.pnp))
    IN  Split(InstanceName(m))

WmiEnumerate == [k \in 1..Len(wmiMons) |-> WmiRecord(wmiMons[k], k - 1)]

\* WMI.get_display_info without the try around the enumeration
WMI_get_display_info_unguarded(c, display, env) ==
    LET Narrow(c1, info, f) ==
            IF f.ok THEN Ok(c1, [k \in 1..Len(f.val) |-> info[f.val[k].index + 1]]) ELSE f
        Answer(c1, info) ==
            IF display.t = "none" THEN Ok(c1, info)
            ELSE Narrow(c1, info, FilterHaystack(c1, display, info, SomeStr("wmi")))
        Have(hit, info) ==
            IF ~hit /\ env.wmiListRaises THEN Raise(WmiInit(c), "x_wmi")
            ELSE Answer(IF hit THEN c
                        ELSE CacheStore(WmiInit(c), "wmi_monitor_info", info, NoExpiry), info)
    IN  Have(CacheHit(c, "wmi_monitor_info"),
             IF CacheHit(c, "wmi_monitor_info") THEN CacheGet(c, "wmi_monitor_info")
             ELSE WmiEnumerate)

WMI_get_display_info(c, display, env) ==
    LET Narrow(c1, info, f) ==
            IF f.ok THEN Ok(c1, [k \in 1..Len(f.val) |-> info[f.val[k].index + 1]]) ELSE f
        Answer(c1, info) ==
            IF display.t = "none" THEN Ok(c1, info)
            ELSE Narrow(c1, info, FilterHaystack(c1, display, info, SomeStr("wmi")))
        Have(hit, info) ==
            Answer(IF hit THEN c
                   ELSE CacheStore(WmiInit(c), "wmi_monitor_info", info, NoExpiry), info)
    IN  Have(CacheHit(c, "wmi_monitor_info"),
             IF CacheHit(c, "wmi_monitor_info") THEN CacheGet(c, "wmi_monitor_info")
             ELSE IF env.wmiListRaises THEN <<>> ELSE WmiEnumerate)

\* a monitor whose friendly name does not split into exactly
\* (manufacturer, model) raises while unpacking and is skipped
VcpDecodes(m) == Len(m.friendly) = 2

VcpRecord(m, a) ==
    LET Record(serial, model, word, brand) ==
            [name |-> (IF brand.ok THEN brand.name ELSE word) \o " " \o model,
             model |-> model, model_name |-> NoneStr, serial |-> serial,
             manufacturer |-> SomeStr(IF brand.ok THEN brand.name ELSE word),
             manufacturer_id |-> IF brand.ok THEN SomeStr(brand.id) ELSE NoneStr,
             index |-> a, method |-> "VCP", edid |-> EdidOf(m.block)]
        Named(word) == Record(DecodeStrip(m.serialId), m.friendly[2], word, BrandLookup(word))
    IN  Named(Capitalize(Lower(m.friendly[1])))

RECURSIVE VcpEnumerateFrom(_, _)
VcpEnumerateFrom(k, a) ==
    IF k > Len(vcpMons) THEN <<>>
    ELSE IF VcpDecodes(vcpMons[k])
         THEN <<VcpRecord(vcpMons[k], a)>> \o VcpEnumerateFrom(k + 1, a + 1)
         ELSE VcpEnumerateFrom(k + 1, a)

VcpEnumerate == VcpEnumerateFrom(1, 0)

VCP_get_display_info(c, display, env) ==
    LET Narrow(c1, info, f) == IF f.ok THEN Ok(c1, f.val) ELSE Ok(c1, info)
        Answer(c1, info) ==
            IF display.t = "none" THEN Ok(c1, info)
            ELSE Narrow(c1, info, FilterHaystack(c1, display, info, SomeStr("vcp")))
        Have(hit, info) ==
            Answer(IF hit THEN c
                   ELSE CacheStore(IF env.vcpListRaises THEN c ELSE WmiInit(c),
                                   "vcp_monitor_info", info, NoExpiry), info)
    IN  Have(CacheHit(c, "vcp_monitor_info"),
             IF CacheHit(c, "vcp_monitor_info") THEN CacheGet(c, "vcp_monitor_info")
             ELSE IF env.vcpListRaises THEN <<>> ELSE VcpEnumerate)

\* "return info[0] if len(info)==1 else info": a dict, not a list, is returned
VcpInfoIsDict(c, display) ==
    LET One(f) == f.ok /\ Len(f.val) = 1
    IN  /\ display.t # "none"
        /\ One(FilterHaystack(c, display, CacheGet(c, "vcp_monitor_info"), SomeStr("vcp")))

\* WMI.get_display_names and VCP.get_display_names: the names of the records
\* the channel's get_display_info() returns
WMI_get_display_names(c, env) ==
    LET Names(r) == IF r.ok THEN Ok(r.c, [k \in 1..Len(r.val) |-> r.val[k].name]) ELSE r
    IN  Names(WMI_get_display_info(c, NoDisplay, env))

VCP_get_display_names(c, env) ==
    LET Names(r) == IF r.ok THEN Ok(r.c, [k \in 1..Len(r.val) |-> r.val[k].name]) ELSE r
    IN  Names(VCP_get_display_info(c, NoDisplay, env))

\* VCP.filter_displays(display, *args): searches args[0] when exactly one
\* extra argument is given, the return of VCP.get_display_info() otherwise;
\* what filter_monitors raises reaches the caller
VCP_filter_displays(c, display, args, env) ==
    LET Search(r) == IF r.ok THEN FilterHaystack(r.c, display, r.val, SomeStr("vcp")) ELSE r
    IN  IF Len(args) = 1 THEN FilterHaystack(c, display, args[1], SomeStr("vcp"))
        ELSE Search(VCP_get_display_info(c, NoDisplay, env))

(***************************************************************************)
(* list_monitors_info and list_monitors                                     *)
(***************************************************************************)
RECURSIVE Dedup(_, _, _)
\* the list without its repeated records: records are compared, not edids
DedupByRecord(records, edids, info) ==
    IF records = <<>> THEN info
    ELSE LET i == Head(records)
         IN  IF \A k \in 1..Len(info) : info[k] # i
             THEN Dedup(Tail(records), edids \cup {i.edid}, Append(info, i))
             ELSE Dedup(Tail(records), edids, info)

\* "to make sure each display (with unique edid) is only reported once"
Dedup(records, edids, info) ==
    IF records = <<>> THEN info
    ELSE LET i == Head(records)
         IN  IF i.edid \notin edids
             THEN Dedup(Tail(records), edids \cup {i.edid}, Append(info, i))
             ELSE Dedup(Tail(records), edids, info)

MethodsFor(method) ==
    IF method.some
    THEN SelectIdx(<<"WMI", "VCP">>, 1,
            {k \in 1..2 : Lower(<<"WMI", "VCP">>[k]) = Lower(method.v)})
    ELSE <<"WMI", "VCP">>

list_monitors_info(c, method, env) ==
    LET Keep(c2, info) == Ok(CacheStore(c2, MethodKey(method), info, NoExpiry), info)
        Merge(a, b) ==
            IF ~a.ok THEN a
            ELSE IF ~b.ok THEN b
            ELSE Keep(b.c, Dedup(a.val \o b.val, {}, <<>>))
        Second(methods, a) ==
            Merge(a, IF "VCP" \in methods
                     THEN VCP_get_display_info(a.c, NoDisplay, env)
                     ELSE Ok(a.c, <<>>))
        First(methods) ==
            IF methods = {} THEN Raise(c, "ValueError")
            ELSE Second(methods, IF "WMI" \in methods
                                 THEN WMI_get_display_info(c, NoDisplay, env)
                                 ELSE Ok(c, <<>>))
    IN  IF CacheHit(c, MethodKey(method)) THEN Ok(c, CacheGet(c, MethodKey(method)))
        ELSE First({MethodsFor(method)[k] : k \in 1..Len(MethodsFor(method))})

list_monitors(c, method, env) ==
    LET Names(r) == IF r.ok THEN Ok(r.c, [k \in 1..Len(r.val) |-> r.val[k].name]) ELSE r
    IN  Names(list_monitors_info(c, method, env))

\* filter_monitors(display, method=...) over the merged list
filter_monitors(c, display, method, env) ==
    LET Among(l) == IF l.ok THEN FilterIn(l.c, display, l.val) ELSE l
    IN  Among(list_monitors_info(c, method, env))

(***************************************************************************)
(* Brightness values as Python returns them: None, an int, or a list.       *)
(***************************************************************************)
PyNone == [k |-> "none", items |-> <<>>]
PyInt(o) == [k |-> "int", items |-> <<o>>]
PyList(s) == [k |-> "list", items |-> s]

\* values[0] if len(values)==1 else values
Unwrap(values) == IF Len(values) = 1 THEN PyInt(values[1]) ELSE PyList(values)

\* the outcome of a channel call: the cache and the hardware after it
Done(c, w, v, val) == [c |-> c, w |-> w, v |-> v, ok |-> TRUE, exc |-> "", val |-> val]
Fail(c, w, v, e) == [c |-> c, w |-> w, v |-> v, ok |-> FALSE, exc |-> e, val |-> PyNone]

Indexes(records) == {records[k].index : k \in 1..Len(records)}

(***************************************************************************)
(* WMI.get_brightness and WMI.set_brightness                                *)
(***************************************************************************)
WMI_get_brightness(c, w, v, display, env) ==
    LET Values(chosen) == [k \in 1..Len(chosen) |-> SomeInt(w[chosen[k]])]
        Read(f, indexes) ==
            IF ~f.ok THEN Fail(f.c, w, v, f.exc)
            ELSE IF \E i \in indexes : i >= Len(w) THEN Fail(f.c, w, v, "IndexError")
            ELSE Done(f.c, w, v,
                      Unwrap(Values(IF display.t = "none" THEN [k \in 1..Len(w) |-> k]
                                    ELSE [k \in 1..Len(f.val) |-> f.val[k].index + 1])))
        Resolved(f) ==
            Read(f, IF display.t = "none" THEN 0..(Len(w) - 1) ELSE Indexes(f.val))
        Started(c1) ==
            IF env.wmiRaises THEN Fail(c1, w, v, "x_wmi")
            ELSE Resolved(IF display.t = "none" THEN Ok(c1, <<>>)
                          ELSE filter_monitors(c1, display, SomeStr("wmi"), env))
    IN  Started(WmiInit(c))

WMI_set_brightness(c, w, v, value, display, no_return, env) ==
    LET Written(f, w1) ==
            IF no_return THEN Done(f.c, w1, v, PyNone)
            ELSE WMI_get_brightness(f.c, w1, v, display, env)
        Write(f, indexes) ==
            IF ~f.ok THEN Fail(f.c, w, v, f.exc)
            ELSE IF \E i \in indexes : i >= Len(w) THEN Fail(f.c, w, v, "IndexError")
            ELSE Written(f, [k \in 1..Len(w) |-> IF (k - 1) \in indexes THEN value ELSE w[k]])
        Resolved(f) ==
            Write(f, IF display.t = "none" THEN 0..(Len(w) - 1) ELSE Indexes(f.val))
        Started(c1) ==
            IF env.wmiRaises THEN Fail(c1, w, v, "x_wmi")
            ELSE Resolved(IF display.t = "none" THEN Ok(c1, <<>>)
                          ELSE filter_monitors(c1, display, SomeStr("wmi"), env))
    IN  Started(WmiInit(c))

(***************************************************************************)
(* VCP.get_brightness and VCP.set_brightness                                *)
(***************************************************************************)
RECURSIVE VcpReadLoop(_, _, _, _, _, _, _, _)
\* the loop over iter_physical_monitors(): handle k is at count k - 1
VcpReadLoop(c, w, v, k, values, bound, all_monitors, env) ==
    IF k > Len(v) THEN Done(c, w, v, IF values = <<>> THEN PyNone ELSE Unwrap(values))
    ELSE LET count == k - 1
             \* 'vcp_'+all_monitors[count]['edid']+'_brightness' can be built
             keyed == bound.given /\ count < Len(all_monitors)
                      /\ all_monitors[count + 1].edid.some
             key == BrightnessKey(all_monitors[count + 1].edid.v)
             hit == keyed /\ CacheHit(c, key)
             val == IF hit THEN SomeInt(CacheGet(c, key))
                    ELSE IF env.readFails THEN NoneInt ELSE SomeInt(v[k])
             wanted == val.some /\ (~bound.given \/ count \in bound.indexes)
         IN  IF ~wanted
             THEN VcpReadLoop(c, w, v, k + 1, values, bound, all_monitors, env)
             ELSE IF ~bound.given THEN Fail(c, w, v, "UnboundLocalError")
             ELSE IF count >= Len(all_monitors)
             THEN VcpReadLoop(c, w, v, k + 1, Append(values, val), bound, all_monitors, env)
             ELSE IF ~all_monitors[count + 1].edid.some THEN Fail(c, w, v, "TypeError")
             ELSE VcpReadLoop(CacheStore(c, key, val.v, SomeInt(BrightnessExpires)),
                              w, v, k + 1, Append(values, val), bound, all_monitors, env)

VCP_get_brightness(c, w, v, display, env) ==
    LET Loop(f, all_monitors) ==
            IF ~f.ok THEN Fail(f.c, w, v, f.exc)
            ELSE IF env.enumRaises THEN Fail(f.c, w, v, "WinError")
            ELSE VcpReadLoop(f.c, w, v, 1, <<>>,
                             [given |-> display.t # "none", indexes |-> Indexes(f.val)],
                             all_monitors, env)
        Listed(gi) ==
            Loop(IF display.t = "none" THEN Ok(c, <<>>)
                 ELSE FilterHaystack(gi.c, display, gi.val, NoneStr), gi.val)
    IN  Listed(IF display.t = "none" THEN Ok(c, <<>>)
               ELSE VCP_get_display_info(c, NoDisplay, env))

VCP_set_brightness(c, w, v, value, display, no_return, env) ==
    LET Written(f, v1) ==
            IF no_return THEN Done(f.c, w, v1, PyNone)
            ELSE VCP_get_brightness(f.c, w, v1, display, env)
        Write(f, displays) ==
            IF ~f.ok THEN Fail(f.c, w, v, f.exc)
            ELSE IF env.enumRaises THEN Fail(f.c, w, v, "WinError")
            ELSE Written(f, [k \in 1..Len(v) |->
                                IF display.t = "none" \/ (k - 1) \in displays
                                THEN value ELSE v[k]])
        Resolved(f) == Write(f, Indexes(f.val))
    IN  Resolved(IF display.t = "none" THEN Ok(c, <<>>)
                 ELSE filter_monitors(c, display, SomeStr("vcp"), env))

(***************************************************************************)
(* __set_and_get_brightness, set_brightness, get_brightness                 *)
(***************************************************************************)
\* getattr(m['method'], meta_method+'_brightness')(*args, display=m['serial'], **kwargs)
ChannelCall(c, w, v, m, meta_method, value, no_return, env) ==
    LET display == StrDisplay(m.serial)
    IN  CASE m.method = "WMI" /\ meta_method = "get" -> WMI_get_brightness(c, w, v, display, env)
          [] m.method = "WMI" /\ meta_method = "set" ->
                WMI_set_brightness(c, w, v, value, display, no_return, env)
          [] m.method = "VCP" /\ meta_method = "get" -> VCP_get_brightness(c, w, v, display, env)
          [] OTHER -> VCP_set_brightness(c, w, v, value, display, no_return, env)

ErrorEntry(m, exc) == [name |-> m.name \o " (" \o m.serial \o ")", kind |-> exc]

RECURSIVE DispatchLoop(_, _, _, _, _, _, _, _, _, _, _)
\* the loop with the try around the whole loop: the first exception ends it
DispatchLoopAborting(c, w, v, monitors, meta_method, value, no_return, env, output, errors, calls) ==
    LET Call(m, r) == [method |-> m.method, serial |-> m.serial, name |-> m.name,
                       raised |-> ~r.ok, val |-> r.val]
        Step(m, r) ==
            IF r.ok
            THEN DispatchLoop(r.c, r.w, r.v, Tail(monitors), meta_method, value, no_return,
                              env, Append(output, r.val), errors, Append(calls, Call(m, r)))
            ELSE [c |-> r.c, w |-> r.w, v |-> r.v, output |-> Append(output, PyNone),
                  errors |-> Append(errors, ErrorEntry(m, r.exc)),
                  calls |-> Append(calls, Call(m, r))]
    IN  IF monitors = <<>>
        THEN [c |-> c, w |-> w, v |-> v, output |-> output, errors |-> errors, calls |-> calls]
        ELSE Step(Head(monitors),
                  ChannelCall(c, w, v, Head(monitors), meta_method, value, no_return, env))

\* the loop with a second attempt for a record whose call raised
DispatchLoopRetrying(c, w, v, monitors, meta_method, value, no_return, env, output, errors, calls) ==
    LET Call(m, r) == [method |-> m.method, serial |-> m.serial, name |-> m.name,
                       raised |-> ~r.ok, val |-> r.val]
        Again(m, r, r2) ==
            DispatchLoop(r2.c, r2.w, r2.v, Tail(monitors), meta_method, value, no_return, env,
                         Append(output, IF r2.ok THEN r2.val ELSE PyNone),
                         IF r2.ok THEN errors ELSE Append(errors, ErrorEntry(m, r2.exc)),
                         Append(Append(calls, Call(m, r)), Call(m, r2)))
        Step(m, r) ==
            IF r.ok
            THEN DispatchLoop(r.c, r.w, r.v, Tail(monitors), meta_method, value, no_return,
                              env, Append(output, r.val), errors, Append(calls, Call(m, r)))
            ELSE Again(m, r, ChannelCall(r.c, r.w, r.v, m, meta_method, value, no_return, env))
    IN  IF monitors = <<>>
        THEN [c |-> c, w |-> w, v |-> v, output |-> output, errors |-> errors, calls |-> calls]
        ELSE Step(Head(monitors),
                  ChannelCall(c, w, v, Head(monitors), meta_method, value, no_return, env))

\* for m in monitors: try the channel call, note an error and go on;
\* calls is the record of the channel calls made and of what each did
DispatchLoop(c, w, v, monitors, meta_method, value, no_return, env, output, errors, calls) ==
    LET Call(m, r) == [method |-> m.method, serial |-> m.serial, name |-> m.name,
                       raised |-> ~r.ok, val |-> r.val]
        Step(m, r) ==
            DispatchLoop(r.c, r.w, r.v, Tail(monitors), meta_method, value, no_return, env,
                         Append(output, IF r.ok THEN r.val ELSE PyNone),
                         IF r.ok THEN errors ELSE Append(errors, ErrorEntry(m, r.exc)),
                         Append(calls, Call(m, r)))
    IN  IF monitors = <<>>
        THEN [c |-> c, w |-> w, v |-> v, output |-> output, errors |-> errors, calls |-> calls]
        ELSE Step(Head(monitors),
                  ChannelCall(c, w, v, Head(monitors), meta_method, value, no_return, env))

RECURSIVE flatten_list(_)
\* one level of list nesting is flattened
flatten_list(output) ==
    IF output = <<>> THEN <<>>
    ELSE LET x == Head(output)
         IN  (CASE x.k = "none" -> <<NoneInt>>
                [] x.k = "int" -> x.items
                [] OTHER -> x.items) \o flatten_list(Tail(output))

\* the test "output != []" alone, without the test for None
AllNoneForgotten(output) == FALSE

AllNone(output) == \A k \in 1..Len(output) : output[k].k = "none"

set_and_get_brightness(c, w, v, value, no_return, display, method, meta_method, env) ==
    LET Result(f, d) ==
            IF d.output # <<>> /\ ~AllNone(d.output)
            THEN [c |-> d.c, w |-> d.w, v |-> d.v, kind |-> "return", exc |-> "",
                  ret |-> Unwrap(flatten_list(d.output)), errors |-> d.errors,
                  resolved |-> f.val, calls |-> d.calls, resolution |-> ""]
            ELSE [c |-> d.c, w |-> d.w, v |-> d.v, kind |-> "raise", exc |-> "Exception",
                  ret |-> PyNone, errors |-> d.errors,
                  resolved |-> f.val, calls |-> d.calls, resolution |-> ""]
        Resolved(f) ==
            IF ~f.ok
            THEN [c |-> f.c, w |-> w, v |-> v, kind |-> "raise", exc |-> "Exception",
                  ret |-> PyNone, errors |-> <<[name |-> "", kind |-> f.exc]>>,
                  resolved |-> <<>>, calls |-> <<>>, resolution |-> f.exc]
            ELSE Result(f, DispatchLoop(f.c, w, v, f.val, meta_method, value, no_return, env,
                                        <<>>, <<>>, <<>>))
    IN  Resolved(filter_monitors(c, display, method, env))

(***************************************************************************)
(* The machines the model is run on, and the arguments of the calls.        *)
(***************************************************************************)
NoBlock == [some |-> FALSE, v |-> <<>>]
Blocks == {NoBlock, [some |-> TRUE, v |-> <<1, 16>>], [some |-> TRUE, v |-> <<255, 0>>]}
Serials == {"S1", "S2"}
SerialIds == {<<"S", "1", "NUL">>, <<"S", "2", "NUL", "NUL">>}
Friendly == <<"BENQ", "GL2450H">>
Unfriendly == <<"BENQ", "GL", "2450H">>

WmiMonitors(serials) == [pnp : {"BNQ"}, product : {"78A7"}, uid : serials, block : Blocks]
VcpMonitors(ids, names) == [friendly : names, serialId : ids, block : Blocks]

Levels == {0, 100}
\* dispatch is explored with one level to write: it does not read the level
DispatchLevels == {0}
Displays ==
    {NoDisplay, OtherDisplay, StrDisplay("S1"), StrDisplay("s2"), StrDisplay("NOPE")}
        \cup {IntDisplay(i) : i \in 0..(MaxMon - 1)}
Methods == {NoneStr, SomeStr("wmi"), SomeStr("vcp"), SomeStr("xyz")}

\* the failures a call can meet on this machine while it reads or writes
CallEnvs ==
    [wmiListRaises : {FALSE}, vcpListRaises : {FALSE},
     wmiRaises : IF wmiMons = <<>> THEN {FALSE} ELSE BOOLEAN,
     enumRaises : IF vcpMons = <<>> THEN {FALSE} ELSE BOOLEAN,
     readFails : IF vcpMons = <<>> THEN {FALSE} ELSE BOOLEAN]

\* the serials and the blocks of the attached monitors, WMI's first
SerialsOf(ws, vs) ==
    [k \in 1..Len(ws) |-> ws[k].uid] \o [k \in 1..Len(vs) |-> DecodeStrip(vs[k].serialId)]
BlocksOf(ws, vs) ==
    [k \in 1..Len(ws) |-> ws[k].block] \o [k \in 1..Len(vs) |-> vs[k].block]

\* one machine of each kind: machines that differ only in which serial or
\* which block comes first behave alike
Canonical(ws, vs) ==
    LET ser == SerialsOf(ws, vs)
        blk == BlocksOf(ws, vs)
        first(k) == blk[k].some /\ \A j \in 1..(k - 1) : ~blk[j].some
    IN  /\ ser # <<>> => ser[1] = "S1"
        /\ \A k \in 1..Len(blk) : first(k) => blk[k].v = <<1, 16>>

NoCall ==
    [op |-> "none", display |-> NoDisplay, method |-> NoneStr, value |-> 0,
     no_return |-> FALSE, env |-> NoEnv, kind |-> "", exc |-> "", ret |-> PyNone,
     errors |-> <<>>, resolved |-> <<>>, calls |-> <<>>, resolution |-> "",
     info |-> <<>>, wmiMiss |-> FALSE, isDict |-> FALSE]

\* no generator of iter_physical_monitors exists
GenIdle ==
    [pc |-> "none", counts |-> <<>>, enumFails |-> FALSE, countFailsAt |-> 0,
     arrayFailsAt |-> 0, i |-> 0, j |-> 0, acquired |-> {}, released |-> <<>>,
     yielded |-> 0, exc |-> ""]
\* no thread has called _wmi_init
ThrIdle == [t \in 1..NumThreads |-> [pc |-> "idle", instance |-> 0, got |-> 0]]

Brightness(n) == [k \in 1..n |-> 50]

\* a process that has made no call yet, on a machine with these monitors
Fresh ==
    /\ hwWmi = Brightness(Len(wmiMons))
    /\ hwVcp = Brightness(Len(vcpMons))
    /\ cache = EmptyCache
    /\ last = NoCall
    /\ gen = GenIdle
    /\ thr = ThrIdle
    /\ made = 0

Init ==
    /\ \E n \in 0..MaxMon :
        /\ wmiMons \in SeqsUpTo(WmiMonitors(Serials), n)
        /\ vcpMons \in SeqsUpTo(VcpMonitors(SerialIds, {Friendly}), MaxMon - n)
    /\ Canonical(wmiMons, vcpMons)
    /\ Fresh

(***************************************************************************)
(* The calls.                                                               *)
(***************************************************************************)
Outcome(op, value, no_return, display, method, env, r) ==
    [NoCall EXCEPT !.op = op, !.display = display, !.method = method, !.value = value,
                   !.no_return = no_return, !.env = env, !.kind = r.kind, !.exc = r.exc,
                   !.ret = r.ret, !.errors = r.errors, !.resolved = r.resolved,
                   !.calls = r.calls, !.resolution = r.resolution]

SetBrightness(value, display, method, no_return, env) ==
    LET SetReturns(r) ==
            /\ cache' = r.c
            /\ hwWmi' = r.w
            /\ hwVcp' = r.v
            /\ last' = Outcome("set_brightness", value, no_return, display, method, env, r)
            /\ UNCHANGED <<world, gen, thr, made>>
    IN  SetReturns(set_and_get_brightness(cache, hwWmi, hwVcp, value, no_return,
                                          display, method, "set", env))

GetBrightness(display, method, env) ==
    LET GetReturns(r) ==
            /\ cache' = r.c
            /\ hwWmi' = r.w
            /\ hwVcp' = r.v
            /\ last' = Outcome("get_brightness", 0, FALSE, display, method, env, r)
            /\ UNCHANGED <<world, gen, thr, made>>
    IN  GetReturns(set_and_get_brightness(cache, hwWmi, hwVcp, 0, FALSE,
                                          display, method, "get", env))

\* half a second passes
Tick ==
    /\ \E k \in DOMAIN cache : cache[k].ttl.some
    /\ cache' = CacheAge(cache)
    /\ UNCHANGED <<world, hwWmi, hwVcp, last, gen, thr, made>>

\* the caller is done with the outcome of its call
Discard ==
    /\ last # NoCall
    /\ last' = NoCall
    /\ UNCHANGED <<world, hwWmi, hwVcp, cache, gen, thr, made>>

Next ==
    \/ /\ last = NoCall
       /\ \E value \in DispatchLevels, display \in Displays, method \in Methods,
             no_return \in BOOLEAN, env \in CallEnvs :
             SetBrightness(value, display, method, no_return, env)
    \/ /\ last = NoCall
       /\ \E display \in Displays, method \in Methods, env \in CallEnvs :
             GetBrightness(display, method, env)
    \/ /\ last = NoCall
       /\ Tick
    \/ Discard

Spec == Init /\ [][Next]_vars

(***************************************************************************)
(* Set followed by get, on a machine whose providers echo what was written: *)
(* no call fails, and the outcome of a call stays until the next call.      *)
(***************************************************************************)
NextRoundTrip ==
    \/ \E value \in Levels, display \in Displays :
          SetBrightness(value, display, NoneStr, FALSE, NoEnv)
    \/ \E display \in Displays : GetBrightness(display, NoneStr, NoEnv)
    \/ Tick

SpecRoundTrip == Init /\ [][NextRoundTrip]_vars

(***************************************************************************)
(* Claims about the top-level calls.                                        *)
(***************************************************************************)
IsSet == last.op = "set_brightness"
IsGet == last.op = "get_brightness"
ResolutionKinds == {"LookupError", "IndexError", "TypeError", "ValueError"}
\* the channel call for the k-th resolved record raises: the provider of its
\* channel fails during this call, or the call made for it is seen to raise
Doomed(m) ==
    \/ m.method = "WMI" /\ last.env.wmiRaises
    \/ m.method = "VCP" /\ last.env.enumRaises
CallRaises(k) ==
    \/ Doomed(last.resolved[k])
    \/ k <= Len(last.calls) /\ last.calls[k].raised
EveryCallRaised == \A k \in 1..Len(last.resolved) : CallRaises(k)
RecordName(m) == m.name \o " (" \o m.serial \o ")"
Readings(ret) == {k \in 1..Len(ret.items) : ret.items[k].some}

\* C1: a top-level get or set whose display query does not resolve fails with
\* the resolution error's own kind (LookupError, IndexError, TypeError or
\* ValueError), and no channel call is issued.
C1_ResolutionErrorSurfaces ==
    ((IsSet \/ IsGet) /\ last.resolution # "") =>
        /\ last.kind = "raise"
        /\ last.exc \in ResolutionKinds
        /\ last.exc = last.resolution
        /\ last.calls = <<>>

\* C5: when the query of a top-level set resolves to n >= 1 records and the
\* channel call raises for every one of them, the call raises one aggregate
\* error with exactly n entries, one per record and in resolution order.
C5_AggregateListsEveryFailure ==
    (IsSet /\ last.resolution = "" /\ Len(last.resolved) >= 1 /\ EveryCallRaised) =>
        /\ last.kind = "raise"
        /\ last.exc = "Exception"
        /\ Len(last.errors) = Len(last.resolved)
        /\ \A k \in 1..Len(last.errors) :
              /\ last.errors[k].name = RecordName(last.resolved[k])
              /\ last.errors[k].kind # ""

\* two records were resolved, both calls raised, two entries are reported
C5_Witness ==
    /\ IsSet
    /\ Len(last.resolved) = 2
    /\ Len(last.calls) = 2
    /\ EveryCallRaised
    /\ Len(last.errors) = 2
    /\ last.errors[1].name # last.errors[2].name

\* C6: a top-level set with no_return whose channel call succeeds for at
\* least one resolved record completes without raising and returns None.
C6_NoReturnSucceeds ==
    (IsSet /\ last.no_return /\ \E k \in 1..Len(last.calls) : ~last.calls[k].raised) =>
        /\ last.kind = "return"
        /\ last.ret = PyNone

\* C7: a top-level get never returns None nor a list of Nones only: with no
\* record resolved, or with every channel call raising or returning no
\* value, it raises one aggregate exception, and what it returns holds at
\* least one integer reading.
C7_NeverSilentNull ==
    IsGet =>
        /\ (last.resolution = "" /\ \A k \in 1..Len(last.calls) :
                last.calls[k].raised \/ last.calls[k].val = PyNone)
              => (last.kind = "raise" /\ last.exc = "Exception")
        /\ last.kind = "return" => (last.ret # PyNone /\ Readings(last.ret) # {})

\* records were resolved, no call raised, every call returned no value
C7_Witness ==
    /\ IsGet
    /\ Len(last.resolved) >= 1
    /\ Len(last.calls) = Len(last.resolved)
    /\ \A k \in 1..Len(last.calls) : ~last.calls[k].raised /\ last.calls[k].val = PyNone
    /\ last.kind = "raise"
    /\ last.errors = <<>>

\* C4: a top-level get that follows a top-level set of value v on the same
\* display, both returning, returns v for every monitor it reads.
C4_RoundTrip ==
    [][(/\ last.op = "set_brightness"
        /\ last.kind = "return"
        /\ last.errors = <<>>
        /\ last'.op = "get_brightness"
        /\ last'.display = last.display
        /\ last'.kind = "return"
        /\ last'.errors = <<>>)
       => \A k \in 1..Len(last'.ret.items) :
             last'.ret.items[k] = SomeInt(last.value)]_vars

(***************************************************************************)
(* Enumeration and merge: the listing calls, on machines with up to MaxMon  *)
(* monitors on each channel.                                                *)
(***************************************************************************)
ListEnvs ==
    [wmiListRaises : BOOLEAN, vcpListRaises : {FALSE},
     wmiRaises : {FALSE}, enumRaises : {FALSE}, readFails : {FALSE}]
ListMethods == {NoneStr, SomeStr("VCP"), SomeStr("xyz")}
ListBlocks == {NoBlock, [some |-> TRUE, v |-> <<1, 16>>]}
ListWmiMonitors == {m \in WmiMonitors(Serials) : m.block \in ListBlocks}
ListVcpMonitors ==
    {m \in VcpMonitors({<<"S", "1", "NUL">>}, {Friendly, Unfriendly}) : m.block \in ListBlocks}
ListDisplays == {NoDisplay, IntDisplay(0), StrDisplay("S1"), StrDisplay("NOPE")}

InitMerge ==
    /\ wmiMons \in SeqsUpTo(ListWmiMonitors, MaxMon)
    /\ vcpMons \in SeqsUpTo(ListVcpMonitors, MaxMon)
    /\ Fresh

\* this call has to enumerate the WMI channel: nothing it needs is cached
MustEnumerateWmi(method) ==
    /\ ~CacheHit(cache, MethodKey(method))
    /\ ~CacheHit(cache, "wmi_monitor_info")
    /\ \E k \in 1..Len(MethodsFor(method)) : MethodsFor(method)[k] = "WMI"

Listing(op, display, method, env, r, miss, isDict) ==
    [NoCall EXCEPT !.op = op, !.display = display, !.method = method, !.env = env,
                   !.kind = IF r.ok THEN "return" ELSE "raise", !.exc = r.exc,
                   !.info = r.val, !.wmiMiss = miss, !.isDict = isDict]

ListMonitorsInfo(method, env) ==
    LET InfoReturns(r) ==
            /\ cache' = r.c
            /\ last' = Listing("list_monitors_info", NoDisplay, method, env, r,
                               MustEnumerateWmi(method), FALSE)
            /\ UNCHANGED <<world, hwWmi, hwVcp, gen, thr, made>>
    IN  InfoReturns(list_monitors_info(cache, method, env))

ListMonitors(method, env) ==
    LET NamesReturn(r) ==
            /\ cache' = r.c
            /\ last' = Listing("list_monitors", NoDisplay, method, env, r,
                               MustEnumerateWmi(method), FALSE)
            /\ UNCHANGED <<world, hwWmi, hwVcp, gen, thr, made>>
    IN  NamesReturn(list_monitors(cache, method, env))

WmiGetDisplayInfo(display, env) ==
    LET WmiInfoReturns(r) ==
            /\ cache' = r.c
            /\ last' = Listing("WMI.get_display_info", display, NoneStr, env, r,
                               ~CacheHit(cache, "wmi_monitor_info"), FALSE)
            /\ UNCHANGED <<world, hwWmi, hwVcp, gen, thr, made>>
    IN  WmiInfoReturns(WMI_get_display_info(cache, display, env))

VcpGetDisplayInfo(display, env) ==
    LET VcpInfoReturns(r) ==
            /\ cache' = r.c
            /\ last' = Listing("VCP.get_display_info", display, NoneStr, env, r,
                               FALSE, VcpInfoIsDict(r.c, display))
            /\ UNCHANGED <<world, hwWmi, hwVcp, gen, thr, made>>
    IN  VcpInfoReturns(VCP_get_display_info(cache, display, env))

WmiGetDisplayNames(env) ==
    LET WmiNamesReturn(r) ==
            /\ cache' = r.c
            /\ last' = Listing("WMI.get_display_names", NoDisplay, NoneStr, env, r,
                               ~CacheHit(cache, "wmi_monitor_info"), FALSE)
            /\ UNCHANGED <<world, hwWmi, hwVcp, gen, thr, made>>
    IN  WmiNamesReturn(WMI_get_display_names(cache, env))

VcpGetDisplayNames(env) ==
    LET VcpNamesReturn(r) ==
            /\ cache' = r.c
            /\ last' = Listing("VCP.get_display_names", NoDisplay, NoneStr, env, r, FALSE, FALSE)
            /\ UNCHANGED <<world, hwWmi, hwVcp, gen, thr, made>>
    IN  VcpNamesReturn(VCP_get_display_names(cache, env))

\* the haystacks a caller passes: none, the records of the attached
\* monitors, or two arguments (which the function ignores)
FilterArgs == {<<>>, <<VcpEnumerate>>, <<VcpEnumerate, <<>>>>}

VcpFilterDisplays(display, args, env) ==
    LET FilterReturns(r) ==
            /\ cache' = r.c
            /\ last' = Listing("VCP.filter_displays", display, NoneStr, env, r, FALSE, FALSE)
            /\ UNCHANGED <<world, hwWmi, hwVcp, gen, thr, made>>
    IN  FilterReturns(VCP_filter_displays(cache, display, args, env))

NextMerge ==
    \/ last = NoCall /\ \E method \in ListMethods, env \in ListEnvs : ListMonitorsInfo(method, env)
    \/ last = NoCall /\ \E method \in ListMethods, env \in ListEnvs : ListMonitors(method, env)
    \/ last = NoCall /\ \E display \in ListDisplays, env \in ListEnvs : WmiGetDisplayInfo(display, env)
    \/ last = NoCall /\ \E display \in ListDisplays, env \in ListEnvs : VcpGetDisplayInfo(display, env)
    \/ last = NoCall /\ \E env \in ListEnvs : WmiGetDisplayNames(env)
    \/ last = NoCall /\ \E env \in ListEnvs : VcpGetDisplayNames(env)
    \/ last = NoCall /\ \E display \in ListDisplays \cup {OtherDisplay}, args \in FilterArgs, env \in ListEnvs :
            VcpFilterDisplays(display, args, env)
    \/ Discard

SpecMerge == InitMerge /\ [][NextMerge]_vars

(***************************************************************************)
(* Claims about the merged list.                                            *)
(***************************************************************************)
\* what each channel enumerated, as the process keeps it
WmiListed ==
    IF CacheHit(cache, "wmi_monitor_info") THEN CacheGet(cache, "wmi_monitor_info") ELSE <<>>
VcpListed ==
    IF CacheHit(cache, "vcp_monitor_info") THEN CacheGet(cache, "vcp_monitor_info") ELSE <<>>
WithEdid(info, e) == {k \in 1..Len(info) : info[k].edid = e}
EdidsIn(info) == {info[k].edid : k \in 1..Len(info)}
MergedAll == last.op = "list_monitors_info" /\ last.kind = "return" /\ ~last.method.some
OncePerChannel(e) ==
    /\ e.some
    /\ Cardinality(WithEdid(WmiListed, e)) = 1
    /\ Cardinality(WithEdid(VcpListed, e)) = 1

\* C2: when each channel enumerates one record with the same non-null edid,
\* list_monitors_info() returns exactly one record with that edid, and it is
\* the WMI record, with its own method and index.
C2_FirstSeenWins ==
    MergedAll =>
        \A e \in EdidsIn(WmiListed) :
            OncePerChannel(e) =>
                /\ Cardinality(WithEdid(last.info, e)) = 1
                /\ \A k \in WithEdid(last.info, e) :
                      /\ last.info[k].method = "WMI"
                      /\ \E j \in WithEdid(WmiListed, e) : last.info[k] = WmiListed[j]

\* both channels enumerated the same edid, under names that differ in case
C2_Witness ==
    /\ MergedAll
    /\ \E e \in EdidsIn(WmiListed) :
          /\ OncePerChannel(e)
          /\ \E i \in WithEdid(WmiListed, e), j \in WithEdid(VcpListed, e), k \in WithEdid(last.info, e) :
                /\ WmiListed[i].manufacturer.v # VcpListed[j].manufacturer.v
                /\ Lower(WmiListed[i].manufacturer.v) = Lower(VcpListed[j].manufacturer.v)
                /\ last.info[k] = WmiListed[i]

\* C3: every record a channel enumerates with edid None is in the list that
\* list_monitors_info() returns.
C3_NullEdidKept ==
    MergedAll =>
        /\ \A k \in WithEdid(WmiListed, NoneStr) :
              \E j \in 1..Len(last.info) : last.info[j] = WmiListed[k]
        /\ \A k \in WithEdid(VcpListed, NoneStr) :
              \E j \in 1..Len(last.info) : last.info[j] = VcpListed[k]

DistinctEdids(info) == \A i, j \in 1..Len(info) : info[i].edid = info[j].edid => i = j

\* C8: when the WMI enumeration raises and VCP enumerates records with
\* distinct edids, list_monitors_info() and list_monitors() raise nothing
\* and return exactly the VCP records, in VCP order; WMI.get_display_info()
\* returns an empty list.
C8_WmiFailsSoft ==
    /\ (last.op \in {"list_monitors_info", "list_monitors"} /\ ~last.method.some
          /\ last.wmiMiss /\ last.env.wmiListRaises) =>
            /\ last.kind = "return"
            /\ WmiListed = <<>>
            /\ DistinctEdids(VcpListed) =>
                 last.info = IF last.op = "list_monitors_info" THEN VcpListed
                             ELSE [k \in 1..Len(VcpListed) |-> VcpListed[k].name]
    /\ (last.op = "WMI.get_display_info" /\ last.display = NoDisplay
          /\ last.wmiMiss /\ last.env.wmiListRaises) =>
            /\ last.kind = "return"
            /\ last.info = <<>>

\* the WMI enumeration raised on a machine with WMI monitors, and the two
\* records VCP enumerated are what list_monitors() returned
C8_Witness ==
    /\ last.op = "list_monitors"
    /\ ~last.method.some
    /\ last.wmiMiss
    /\ last.env.wmiListRaises
    /\ wmiMons # <<>>
    /\ Len(VcpListed) = 2
    /\ DistinctEdids(VcpListed)
    /\ Len(last.info) = 2

(***************************************************************************)
(* VCP.iter_physical_monitors: one generator and its consumer.              *)
(* counts[i] is what GetNumberOfPhysicalMonitorsFromHMONITOR reports for    *)
(* the i-th HMONITOR; a handle is <<i, j>>, the j-th of the i-th array.     *)
(***************************************************************************)
Generators ==
    [pc : {"new"}, counts : SeqsUpTo(0..MaxPhys, MaxHMon), enumFails : BOOLEAN,
     countFailsAt : 0..MaxHMon, arrayFailsAt : 0..MaxHMon, i : {0}, j : {0},
     acquired : {{}}, released : {<<>>}, yielded : {0}, exc : {""}]

InitIter ==
    /\ wmiMons = <<>>
    /\ vcpMons = <<>>
    /\ hwWmi = <<>>
    /\ hwVcp = <<>>
    /\ cache = EmptyCache
    /\ last = NoCall
    /\ thr = ThrIdle
    /\ made = 0
    /\ gen \in {g \in Generators : g.countFailsAt <= Len(g.counts)
                                   /\ g.arrayFailsAt <= Len(g.counts)}

GenRaise(g, e) == [g EXCEPT !.pc = "done", !.exc = e]

RECURSIVE ForMonitor(_, _)
\* "for monitor in monitors" from the i-th monitor on, up to the next yield
ForMonitor(g, i) ==
    IF i > Len(g.counts) THEN GenRaise(g, "StopIteration")
    ELSE IF g.countFailsAt = i THEN GenRaise(g, "WinError")
    ELSE IF g.counts[i] = 0 THEN ForMonitor(g, i + 1)
    ELSE IF g.arrayFailsAt = i THEN GenRaise(g, "WinError")
    ELSE [g EXCEPT !.pc = "yielded", !.i = i, !.j = 1, !.yielded = @ + 1,
                   !.acquired = @ \cup {<<i, k>> : k \in 1..g.counts[i]}]

\* the statement after the yield, and on to the next yield
AfterYield(g) ==
    LET Destroyed(g1) ==
            IF g.j < g.counts[g.i]
            THEN [g1 EXCEPT !.j = @ + 1, !.yielded = @ + 1]
            ELSE ForMonitor(g1, g.i + 1)
    IN  Destroyed([g EXCEPT !.released = Append(@, <<g.i, g.j>>)])

\* next(generator)
IterNext ==
    /\ gen.pc \in {"new", "yielded"}
    /\ gen' = IF gen.pc = "new"
              THEN (IF gen.enumFails THEN GenRaise(gen, "WinError") ELSE ForMonitor(gen, 1))
              ELSE AfterYield(gen)
    /\ UNCHANGED <<world, hwWmi, hwVcp, cache, last, thr, made>>

\* the consumer stops: the generator is closed (GeneratorExit at the yield),
\* and no statement of the function catches it
IterClose ==
    /\ gen.pc \in {"new", "yielded"}
    /\ gen' = GenRaise(gen, "GeneratorExit")
    /\ UNCHANGED <<world, hwWmi, hwVcp, cache, last, thr, made>>

NextIter == IterNext \/ IterClose

SpecIter == InitIter /\ [][NextIter]_vars

TimesReleased(h) == Cardinality({k \in 1..Len(gen.released) : gen.released[k] = h})

\* C9: when the iteration is finalized, by exhaustion or by the consumer
\* stopping early, every handle obtained from the OS has been released
\* exactly once.
C9_HandlesReleasedOnce ==
    gen.pc = "done" => \A h \in gen.acquired : TimesReleased(h) = 1

(***************************************************************************)
(* _wmi_init called for the first time by NumThreads threads; thread 1 is   *)
(* the main thread.  made counts the wmi.WMI(...) constructions, and the    *)
(* n-th instance constructed is n.                                          *)
(***************************************************************************)
Threads == 1..NumThreads
MainThread == 1

InitThreads ==
    /\ wmiMons = <<>>
    /\ vcpMons = <<>>
    /\ hwWmi = <<>>
    /\ hwVcp = <<>>
    /\ cache = EmptyCache
    /\ last = NoCall
    /\ gen = GenIdle
    /\ thr = ThrIdle
    /\ made = 0

\* try: return __cache__.get('wmi_instance')
WmiInitGet(t) ==
    /\ thr[t].pc = "idle"
    /\ thr' = [thr EXCEPT ![t] =
                 IF CacheHit(cache, "wmi_instance")
                 THEN [@ EXCEPT !.pc = "returned", !.got = CacheGet(cache, "wmi_instance")]
                 ELSE [@ EXCEPT !.pc = IF t = MainThread THEN "construct" ELSE "coinit"]]
    /\ UNCHANGED <<world, hwWmi, hwVcp, cache, last, gen, made>>

\* pythoncom.CoInitialize()
WmiInitCoInitialize(t) ==
    /\ thr[t].pc = "coinit"
    /\ thr' = [thr EXCEPT ![t].pc = "construct"]
    /\ UNCHANGED <<world, hwWmi, hwVcp, cache, last, gen, made>>

\* instance = wmi.WMI(namespace='wmi')
WmiInitConstruct(t) ==
    /\ thr[t].pc = "construct"
    /\ made' = made + 1
    /\ thr' = [thr EXCEPT ![t] = [@ EXCEPT !.pc = "store", !.instance = made + 1]]
    /\ UNCHANGED <<world, hwWmi, hwVcp, cache, last, gen>>

\* __cache__.store('wmi_instance', instance); return instance
WmiInitStore(t) ==
    /\ thr[t].pc = "store"
    /\ cache' = CacheStore(cache, "wmi_instance", thr[t].instance, NoExpiry)
    /\ thr' = [thr EXCEPT ![t] = [@ EXCEPT !.pc = "returned", !.got = thr[t].instance]]
    /\ UNCHANGED <<world, hwWmi, hwVcp, last, gen, made>>

NextThreads ==
    \E t \in Threads :
        \/ WmiInitGet(t)
        \/ WmiInitCoInitialize(t)
        \/ WmiInitConstruct(t)
        \/ WmiInitStore(t)

SpecThreads == InitThreads /\ [][NextThreads]_vars

\* C10: under any interleaving of first calls, the instance is constructed
\* at most once, and every thread that has returned holds that same
\* instance.
C10_OneInstance ==
    /\ made <= 1
    /\ \A t, u \in Threads :
          (thr[t].pc = "returned" /\ thr[u].pc = "returned") => thr[t].got = thr[u].got

(***************************************************************************)
(* Claims about the values the dispatch returns.                            *)
(***************************************************************************)
\* the slot of the k-th resolved record: its reading, or None when its
\* channel call raised or returned no value
SlotOf(k) ==
    IF last.calls[k].raised \/ last.calls[k].val.k = "none" THEN NoneInt
    ELSE last.calls[k].val.items[1]

GotReading(k) == ~last.calls[k].raised /\ last.calls[k].val.k # "none"

\* C11: a get_brightness that resolves n >= 2 records, one of which at
\* least yields a reading, returns a list of exactly n entries in resolution
\* order, None standing in the slot of every record that gave no reading;
\* a single remaining result is returned as a scalar.
C11_SlotsKept ==
    (IsGet /\ last.resolution = "" /\ Len(last.calls) = Len(last.resolved)
        /\ \E k \in 1..Len(last.calls) : GotReading(k)) =>
        /\ last.kind = "return"
        /\ Len(last.resolved) >= 2 =>
              /\ last.ret.k = "list"
              /\ Len(last.ret.items) = Len(last.resolved)
              /\ \A k \in 1..Len(last.resolved) : last.ret.items[k] = SlotOf(k)
        /\ Len(last.resolved) = 1 /\ last.calls[1].val.k = "int" => last.ret.k = "int"

(***************************************************************************)
(* The channel methods called directly, as their docstrings show them.      *)
(***************************************************************************)
ChannelDisplays == {NoDisplay, StrDisplay("S1"), IntDisplay(0), IntDisplay(MaxMon - 1)}

ChannelReturn(op, value, no_return, display, env, r) ==
    [NoCall EXCEPT !.op = op, !.display = display, !.value = value,
                   !.no_return = no_return, !.env = env,
                   !.kind = IF r.ok THEN "return" ELSE "raise",
                   !.exc = r.exc, !.ret = r.val]

VcpGetBrightness(display, env) ==
    LET VcpGetReturns(r) ==
            /\ cache' = r.c
            /\ hwWmi' = r.w
            /\ hwVcp' = r.v
            /\ last' = ChannelReturn("VCP.get_brightness", 0, FALSE, display, env, r)
            /\ UNCHANGED <<world, gen, thr, made>>
    IN  VcpGetReturns(VCP_get_brightness(cache, hwWmi, hwVcp, display, env))

VcpSetBrightness(value, display, no_return, env) ==
    LET VcpSetReturns(r) ==
            /\ cache' = r.c
            /\ hwWmi' = r.w
            /\ hwVcp' = r.v
            /\ last' = ChannelReturn("VCP.set_brightness", value, no_return, display, env, r)
            /\ UNCHANGED <<world, gen, thr, made>>
    IN  VcpSetReturns(VCP_set_brightness(cache, hwWmi, hwVcp, value, display, no_return, env))

WmiGetBrightness(display, env) ==
    LET WmiGetReturns(r) ==
            /\ cache' = r.c
            /\ hwWmi' = r.w
            /\ hwVcp' = r.v
            /\ last' = ChannelReturn("WMI.get_brightness", 0, FALSE, display, env, r)
            /\ UNCHANGED <<world, gen, thr, made>>
    IN  WmiGetReturns(WMI_get_brightness(cache, hwWmi, hwVcp, display, env))

WmiSetBrightness(value, display, no_return, env) ==
    LET WmiSetReturns(r) ==
            /\ cache' = r.c
            /\ hwWmi' = r.w
            /\ hwVcp' = r.v
            /\ last' = ChannelReturn("WMI.set_brightness", value, no_return, display, env, r)
            /\ UNCHANGED <<world, gen, thr, made>>
    IN  WmiSetReturns(WMI_set_brightness(cache, hwWmi, hwVcp, value, display, no_return, env))

NextChannel ==
    \/ last = NoCall /\ \E display \in ChannelDisplays, env \in CallEnvs :
          VcpGetBrightness(display, env)
    \/ last = NoCall /\ \E value \in Levels, display \in ChannelDisplays,
                          no_return \in BOOLEAN, env \in CallEnvs :
          VcpSetBrightness(value, display, no_return, env)
    \/ last = NoCall /\ \E display \in ChannelDisplays, env \in CallEnvs :
          WmiGetBrightness(display, env)
    \/ last = NoCall /\ \E value \in Levels, display \in ChannelDisplays,
                          no_return \in BOOLEAN, env \in CallEnvs :
          WmiSetBrightness(value, display, no_return, env)
    \/ last = NoCall /\ Tick
    \/ Discard

SpecChannel == Init /\ [][NextChannel]_vars

\* the readings of the handles whose feature read succeeds, in handle order
ReadableValues == IF last.env.readFails THEN <<>> ELSE [k \in 1..Len(hwVcp) |-> SomeInt(hwVcp[k])]

\* C12: VCP.get_brightness() with no display argument does not raise and
\* returns the brightness of every handle whose feature read succeeds: an
\* integer for one such handle, a list for several, None when there is none.
C12_VcpGetAll ==
    (last.op = "VCP.get_brightness" /\ last.display = NoDisplay /\ ~last.env.enumRaises) =>
        /\ last.kind = "return"
        /\ last.ret = IF ReadableValues = <<>> THEN PyNone ELSE Unwrap(ReadableValues)

(***************************************************************************)
(* Claims about the calls one top-level set makes and what they write.      *)
(***************************************************************************)
\* the positions of the calls that raised, in call order
RaisedCalls == SelectIdx(last.calls, 1, {k \in 1..Len(last.calls) : last.calls[k].raised})

\* C13: one top-level set_brightness attempts the channel set call for every
\* resolved record exactly once, in resolution order, also after the call
\* for an earlier record raised; a call that raised is recorded as an error
\* and not attempted again.
C13_EachRecordOnce ==
    (IsSet /\ last.resolution = "") =>
        /\ Len(last.calls) = Len(last.resolved)
        /\ \A k \in 1..Len(last.calls) :
              /\ last.calls[k].method = last.resolved[k].method
              /\ last.calls[k].serial = last.resolved[k].serial
              /\ last.calls[k].name = last.resolved[k].name
        /\ Len(last.errors) = Len(RaisedCalls)
        /\ \A k \in 1..Len(last.errors) :
              last.errors[k].name = RecordName(RaisedCalls[k])

\* the call for the first of two records raised, and the call for the second
\* was made all the same and wrote its monitor
C13_Witness ==
    /\ IsSet
    /\ Len(last.resolved) = 2
    /\ Len(last.calls) = 2
    /\ last.calls[1].raised
    /\ ~last.calls[2].raised
    /\ Len(last.errors) = 1
    /\ last.resolved[1].method # last.resolved[2].method

\* the record of a channel that stands for the monitor at position p of it
ResolvedAt(resolved, method, p) ==
    \E k \in 1..Len(resolved) : resolved[k].method = method /\ resolved[k].index = p - 1

\* C14: a top-level set_brightness leaves the brightness of every monitor
\* that is not one of the resolved records unchanged, also when the query is
\* an integer resolving to one record and another monitor of the channel
\* carries the same serial.
C14_OthersUnchanged ==
    [][(last.op = "none" /\ last'.op = "set_brightness") =>
          /\ \A p \in 1..Len(hwWmi) :
                ~ResolvedAt(last'.resolved, "WMI", p) => hwWmi'[p] = hwWmi[p]
          /\ \A p \in 1..Len(hwVcp) :
                ~ResolvedAt(last'.resolved, "VCP", p) => hwVcp'[p] = hwVcp[p]]_vars

(***************************************************************************)
(* Claims about the index of a VCP record.                                  *)
(***************************************************************************)
\* the handle positions (from 1) of the monitors VCP.get_display_info
\* decodes, in handle order: the k-th record describes the k-th of them
DecodedPositions ==
    SelectIdx([p \in 1..Len(vcpMons) |-> p], 1,
              {p \in 1..Len(vcpMons) : VcpDecodes(vcpMons[p])})

\* C15: the 'index' of every record VCP.get_display_info returns is the
\* position, in iter_physical_monitors order, of the handle of the monitor
\* the record describes, also when an earlier monitor could not be decoded
\* and was skipped.
C15_IndexIsHandlePosition ==
    (last.op = "VCP.get_display_info" /\ last.display = NoDisplay /\ last.kind = "return") =>
        /\ Len(last.info) = Len(DecodedPositions)
        /\ \A k \in 1..Len(last.info) :
              /\ last.info[k].edid = EdidOf(vcpMons[DecodedPositions[k]].block)
              /\ last.info[k].index = DecodedPositions[k] - 1

====
